---- MODULE Spec2Model ----
(***************************************************************************)
(* A model of the reconciliation-and-publish engine of skillforge-ai:      *)
(*   AutonomousSkillsSync   src/src/skills-adapter/autonomous-sync.ts      *)
(*   CraftSkillsAdapter     src/unnamed/part_006                           *)
(*   ClawdBotClient         src/unnamed/part_001                           *)
(*   GitHubAutomation       src/unnamed/part_000                           *)
(*   the integration class  src/src/index.ts                               *)
(*                                                                         *)
(* The program runs on one event loop: code between two I/O awaits is one  *)
(* atomic step.  Every in-flight I/O call (a file write, an HTTP GET, a    *)
(* git subprocess) is a position (pc) of the run or publish call that      *)
(* issued it, and its completion, with either outcome, is an action.       *)
(***************************************************************************)
EXTENDS Integers, Sequences, FiniteSets, TLC

(***************************************************************************)
(* Bounds of the model.                                                    *)
(***************************************************************************)
MaxRuns == 2        \* performSync invocations in one behaviour
MaxFaults == 1      \* failing I/O calls in one behaviour
MaxPublishes == 2   \* commitAllRepositories invocations in one behaviour
MaxManual == 1      \* triggerSync calls of the integration class in one behaviour

(***************************************************************************)
(* Program constants.                                                      *)
(***************************************************************************)
HistoryCap == 100   \* saveSyncHistory: this.syncHistory.slice(-100)

\* `undefined`, where a configuration is expected.
Undefined == <<"undefined">>

(***************************************************************************)
(* Upstream data.  A ClawdBot skill carries id, name, description, enabled *)
(* and configuration (version, author, category and dependencies are read  *)
(* by no code the model covers).  A configuration is the ordered list of   *)
(* its key/value pairs, which is what JSON.stringify serialises.           *)
(***************************************************************************)
SkillIds == {"a", "b"}
EmptyCfg == << >>     \* {}
SkillA1 == [id |-> "a", name |-> "A", description |-> "dA", enabled |-> TRUE,
            configuration |-> Undefined]
SkillA0 == [SkillA1 EXCEPT !.enabled = FALSE]
SkillB1 == [id |-> "b", name |-> "B", description |-> "dB", enabled |-> TRUE,
            configuration |-> Undefined]
\* The lists GET /skills may answer with.
ClawdLists == { << >>, <<SkillA1>>, <<SkillA0, SkillB1>> }

ToolT == [name |-> "t", description |-> "dT", inputSchema |-> EmptyCfg]
\* The lists kiloClient.listTools() may answer with.
KiloLists == { << >>, <<ToolT>> }

CraftIds == {<<"clawdbot", i>> : i \in SkillIds}

VARIABLES
  config,          \* AutonomousSkillsSync.config (the four flags)
  kiloClient,      \* "null" (index.ts wiring) or "client"
  initPc,          \* position of ClawdBotKimiKiloCraftIntegration.initialize
  syncInterval,    \* TRUE iff the setInterval timer is armed
  lastSync,        \* AutonomousSkillsSync.lastSync
  syncHistory,     \* AutonomousSkillsSync.syncHistory
  availableSkills, \* ClawdBotClient.availableSkills (a Map, in insertion order)
  craftSkills,     \* CraftSkillsAdapter.craftSkills (a Map, in insertion order)
  runs,            \* the performSync invocations, by start order
  started,         \* number of performSync invocations so far
  faults,          \* number of failed I/O calls so far
  backups,         \* the backup-<timestamp>.json files written
  diskFiles,       \* <skill id>.md files of the skills directory
  skillsJson,      \* skills.json of the skills directory
  historyFile,     \* sync-history.json
  notifications,   \* timestamps of the runs notifyChanges was called for
  ghConfig,        \* GitHubAutomation.config (autoCommit, autoPush)
  cwd,             \* the process's working directory (process.chdir)
  dirExists,       \* per target directory: it exists
  isRepo,          \* per target directory: it holds a git repository
  hasRemote,       \* per target directory: the remote origin is registered
  unstaged,        \* per target directory: paths whose file differs from the index
  staged,          \* per target directory: paths whose index entry differs from HEAD
  commits,         \* per target directory: number of commits made
  pushed,          \* per target directory: number of commits the remote holds
  commitHistory,   \* GitHubAutomation.commitHistory
  pubs,            \* the commitAllRepositories invocations, by start order
  pubStarted       \* number of commitAllRepositories invocations so far

syncVars == <<config, kiloClient, initPc, syncInterval, lastSync, syncHistory,
              availableSkills, craftSkills, runs, started, faults, backups,
              diskFiles, skillsJson, historyFile, notifications>>

\* What only GitHubAutomation and git change.
gitVars == <<ghConfig, cwd, dirExists, isRepo, hasRemote, staged, commits, pushed,
             commitHistory, pubs, pubStarted>>

vars == <<syncVars, gitVars, unstaged>>

(***************************************************************************)
(* JavaScript Map, kept as the sequence of its values in insertion order.  *)
(***************************************************************************)
MapHas(m, id) == \E i \in 1..Len(m) : m[i].id = id

MapGet(m, id) == m[CHOOSE i \in 1..Len(m) : m[i].id = id]

\* Map.prototype.set: an existing key keeps its position.
MapSet(m, v) ==
  IF MapHas(m, v.id)
  THEN [i \in 1..Len(m) |-> IF m[i].id = v.id THEN v ELSE m[i]]
  ELSE Append(m, v)

RECURSIVE MapSetAll(_, _)
MapSetAll(m, vs) ==
  IF vs = << >> THEN m ELSE MapSetAll(MapSet(m, Head(vs)), Tail(vs))

MapIds(m) == {m[i].id : i \in 1..Len(m)}

\* Array.prototype.slice(-n)
LastN(s, n) == IF Len(s) <= n THEN s ELSE SubSeq(s, Len(s) - n + 1, Len(s))


(***************************************************************************)
(* ClawdBotClient                                                          *)
(***************************************************************************)
\* loadSkills, remote branch after a successful GET: clear, then set each.
LoadSkills(response) == MapSetAll(<< >>, response)

\* ClawdBotClient.disableSkill: throws when the id is unknown.
ClientDisableSkill(avail, id) ==
  IF MapHas(avail, id)
  THEN [threw |-> FALSE, avail |-> MapSet(avail, [MapGet(avail, id) EXCEPT !.enabled = FALSE])]
  ELSE [threw |-> TRUE, avail |-> avail]

(***************************************************************************)
(* CraftSkillsAdapter                                                      *)
(***************************************************************************)
CraftId(skillId) == <<"clawdbot", skillId>>

\* skillId.replace('clawdbot-', '')
StripPrefix(craftId) == craftId[2]

ConvertToCraftSkill(s) ==
  [id |-> CraftId(s.id), name |-> s.name, description |-> s.description,
   enabled |-> s.enabled, source |-> "clawdbot", configuration |-> s.configuration]

\* loadPredefinedSkills: the literal table, cut down to one entry.
PredefinedSkills ==
  << [id |-> CraftId("a"), name |-> "A", description |-> "dA", enabled |-> TRUE,
      source |-> "clawdbot", configuration |-> Undefined] >>

\* CraftSkillsAdapter.initialize
AdapterInitialize(craft, avail) ==
  LET c1 == MapSetAll(craft, [i \in 1..Len(avail) |-> ConvertToCraftSkill(avail[i])])
  IN IF Len(c1) = 0 THEN MapSetAll(c1, PredefinedSkills) ELSE c1

\* CraftSkillsAdapter.disableSkill: the flag is cleared before the client is asked.
AdapterDisableSkill(craft, avail, skillId) ==
  IF ~MapHas(craft, skillId)
  THEN [threw |-> TRUE, craft |-> craft, avail |-> avail]
  ELSE LET skill == MapGet(craft, skillId)
           c1 == MapSet(craft, [skill EXCEPT !.enabled = FALSE])
       IN IF skill.source = "clawdbot"
          THEN LET d == ClientDisableSkill(avail, StripPrefix(skillId))
               IN [threw |-> d.threw, craft |-> c1, avail |-> d.avail]
          ELSE [threw |-> FALSE, craft |-> c1, avail |-> avail]

\* `${JSON.stringify(skill.configuration || {}, null, 2)}`
RenderConfiguration(cfg) == IF cfg = Undefined THEN EmptyCfg ELSE cfg

\* generateSkillsDirectory: one <id>.md per skill, in Map order.
GenerateSkillsDirectory(craft) ==
  [i \in 1..Len(craft) |->
     [file |-> craft[i].id,
      content |-> [name |-> craft[i].name, description |-> craft[i].description,
                   enabled |-> craft[i].enabled, source |-> craft[i].source,
                   configuration |-> RenderConfiguration(craft[i].configuration)]]]

\* exportSkillsJSON: JSON.stringify of the skills in Map order.
ExportSkillsJSON(craft) == <<"json", craft>>

(***************************************************************************)
(* AutonomousSkillsSync: values                                            *)
(***************************************************************************)
\* new Date() of the t-th performSync; a Date is serialised as an ISO string.
DateOf(t) == <<"date", t>>
IsoOf(t) == <<"iso", t>>

NewResult(t) ==
  [timestamp |-> DateOf(t),
   clawdBotSkillsAdded |-> 0, clawdBotSkillsUpdated |-> 0, clawdBotSkillsRemoved |-> 0,
   kiloToolsAdded |-> 0, kiloToolsUpdated |-> 0, kiloToolsRemoved |-> 0,
   totalSkills |-> 0, success |-> FALSE, errors |-> << >>]

\* JSON.stringify of one SyncResult / of the history array.
ResultToJSON(res) ==
  IF res.timestamp[1] = "date" THEN [res EXCEPT !.timestamp = IsoOf(res.timestamp[2])]
  ELSE res
HistoryToJSON(h) == [i \in 1..Len(h) |-> ResultToJSON(h[i])]

\* An entry of a sync-history.json written by an earlier process.
OldEntry == [NewResult(0) EXCEPT !.timestamp = IsoOf(0), !.success = TRUE]
FullHistoryFile == [i \in 1..HistoryCap |-> OldEntry]

\* A performSync invocation.  currentSkills holds, per id, a reference to the
\* adapter's skill object: frozen = << >> while that object is still the one in
\* craftSkills, <<value>> once CraftSkillsAdapter.initialize replaced it.
\* overlapped, backedUp, mutated, wrote, saved, snapshot, fetchedClawd and
\* fetchedKilo record what the invocation saw and did (saved: its
\* saveSkillsToDisk completed).
NoRun ==
  [pc |-> "unstarted", origin |-> "none", result |-> NewResult(0),
   currentSkills |-> << >>, skillsDir |-> << >>, written |-> 0, pending |-> << >>,
   overlapped |-> FALSE, backedUp |-> FALSE, mutated |-> FALSE, wrote |-> FALSE,
   saved |-> FALSE, snapshot |-> << >>, fetchedClawd |-> << >>, fetchedKilo |-> << >>]

Ended == {"returned", "rejected"}
RunIds == 1..MaxRuns
Active == {q \in RunIds : runs[q].pc \notin Ended \cup {"unstarted"}}

\* The value a currentSkills entry shows now.
View(e, craft) == IF e.frozen = << >> THEN MapGet(craft, e.id) ELSE e.frozen[1]

\* new Map(getAllSkills().map(s => [s.id, s]))
SnapshotOf(craft) == [i \in 1..Len(craft) |-> [id |-> craft[i].id, frozen |-> << >>]]

\* Objects replaced in craftSkills stay as they were in every snapshot holding them.
Freeze(rs, ids, craft) ==
  LET frz(e) == IF e.frozen = << >> /\ e.id \in ids
                THEN [id |-> e.id, frozen |-> <<MapGet(craft, e.id)>>]
                ELSE e
  IN [q \in RunIds |->
        [rs[q] EXCEPT !.currentSkills =
           [i \in 1..Len(rs[q].currentSkills) |-> frz(rs[q].currentSkills[i])]]]

\* JSON.stringify of a configuration: undefined for undefined, else the text
\* that lists its key/value pairs in insertion order.
JSONStringify(cfg) == IF cfg = Undefined THEN Undefined ELSE <<"json", cfg>>

HasSkillChanged(existingSkill, newSkill) ==
  \/ existingSkill.name # newSkill.name
  \/ existingSkill.description # newSkill.description
  \/ existingSkill.enabled # newSkill.enabled
  \/ JSONStringify(existingSkill.configuration) # JSONStringify(newSkill.configuration)

\* existingSkill.configuration?.inputSchema
InputSchemaOf(cfg) == IF cfg = Undefined \/ cfg = EmptyCfg THEN Undefined ELSE cfg

HasToolChanged(existingSkill, newTool) ==
  \/ existingSkill.name # newTool.name
  \/ existingSkill.description # newTool.description
  \/ JSONStringify(InputSchemaOf(existingSkill.configuration)) # JSONStringify(newTool.inputSchema)

\* A variant of hasChanges that looks at the ClawdBot counts only.  C19 must
\* tell it from the code.
HasChangesClawdBotOnly(result) ==
  \/ result.clawdBotSkillsAdded > 0
  \/ result.clawdBotSkillsUpdated > 0
  \/ result.clawdBotSkillsRemoved > 0

\* hasChanges
HasChanges(result) ==
  \/ result.clawdBotSkillsAdded > 0
  \/ result.clawdBotSkillsUpdated > 0
  \/ result.clawdBotSkillsRemoved > 0
  \/ result.kiloToolsAdded > 0
  \/ result.kiloToolsUpdated > 0
  \/ result.kiloToolsRemoved > 0

KiloId(name) == <<"kilo", name>>

\* The "check for removed" loop of syncClawdBotSkills / syncKiloTools: walks
\* currentSkills from entry j on, disables each entry of `source` whose id was
\* not fetched, and stops at the first disableSkill that throws.
RECURSIVE RemoveLoop(_, _, _, _, _, _, _)
RemoveLoop(cur, j, source, fetchedIds, craft, avail, removed) ==
  IF j > Len(cur)
  THEN [threw |-> FALSE, craft |-> craft, avail |-> avail, removed |-> removed]
  ELSE IF View(cur[j], craft).source = source /\ cur[j].id \notin fetchedIds
       THEN LET d == AdapterDisableSkill(craft, avail, cur[j].id)
            IN IF d.threw
               THEN [threw |-> TRUE, craft |-> d.craft, avail |-> d.avail, removed |-> removed]
               ELSE RemoveLoop(cur, j + 1, source, fetchedIds, d.craft, d.avail, removed + 1)
       ELSE RemoveLoop(cur, j + 1, source, fetchedIds, craft, avail, removed)

\* syncClawdBotSkills after loadSkills resolved: avail is the client's new map.
SyncClawdBotSkills(cur, craft, avail) ==
  LET has(i) == \E j \in 1..Len(cur) : cur[j].id = CraftId(avail[i].id)
      existing(i) == View(cur[CHOOSE j \in 1..Len(cur) : cur[j].id = CraftId(avail[i].id)], craft)
      addedIx == {i \in 1..Len(avail) : ~has(i)}
      updatedIx == {i \in 1..Len(avail) : has(i) /\ HasSkillChanged(existing(i), avail[i])}
      reinit == addedIx \cup updatedIx # {}
      craft1 == IF reinit THEN AdapterInitialize(craft, avail) ELSE craft
      replaced == IF reinit THEN {CraftId(avail[i].id) : i \in 1..Len(avail)} \cap MapIds(craft)
                  ELSE {}
      fetchedIds == {CraftId(avail[i].id) : i \in 1..Len(avail)}
      loop == RemoveLoop(cur, 1, "clawdbot", fetchedIds, craft1, avail, 0)
  IN [threw |-> loop.threw, craft |-> loop.craft, avail |-> loop.avail,
      replaced |-> replaced,
      added |-> Cardinality(addedIx), updated |-> Cardinality(updatedIx),
      removed |-> loop.removed]

\* syncKiloTools after listTools resolved.  addKiloTool and updateKiloTool
\* build a skill object and only log it: the adapter is not changed.
SyncKiloTools(cur, craft, avail, tools) ==
  LET has(i) == \E j \in 1..Len(cur) : cur[j].id = KiloId(tools[i].name)
      existing(i) == View(cur[CHOOSE j \in 1..Len(cur) : cur[j].id = KiloId(tools[i].name)], craft)
      addedIx == {i \in 1..Len(tools) : ~has(i)}
      updatedIx == {i \in 1..Len(tools) : has(i) /\ HasToolChanged(existing(i), tools[i])}
      fetchedIds == {KiloId(tools[i].name) : i \in 1..Len(tools)}
      loop == RemoveLoop(cur, 1, "kilo", fetchedIds, craft, avail, 0)
  IN [threw |-> loop.threw, craft |-> loop.craft, avail |-> loop.avail,
      added |-> Cardinality(addedIx), updated |-> Cardinality(updatedIx),
      removed |-> loop.removed]

(***************************************************************************)
(* GitHubAutomation.  A git working tree is kept as the set of paths whose *)
(* file differs from the index (unstaged) and the set of paths whose index *)
(* entry differs from HEAD (staged).  A subprocess runs in the directory   *)
(* that was the process's cwd when exec was called.                        *)
(***************************************************************************)
\* commitAllRepositories: skills, integration, kimiKilo.
Targets == <<"skills", "integration", "kimiKilo">>
TargetSet == {Targets[k] : k \in 1..Len(Targets)}
PubIds == 1..MaxPublishes

NewCommitResult(t) ==
  [repository |-> t, success |-> FALSE, filesChanged |-> 0, commitHash |-> << >>,
   error |-> << >>]

\* A commitAllRepositories invocation: the subprocess it awaits (pc), the
\* target it is at (k), the directory that subprocess runs in (dir), the
\* CommitResult being filled, the results so far, and the run it publishes.
NoPub ==
  [pc |-> "idle", k |-> 0, dir |-> "none", result |-> NewCommitResult("none"),
   results |-> << >>, forRun |-> 0]

\* commitSkillsUpdate / commitIntegrationUpdate / commitKimiKiloUpdate from
\* the call to the first exec, for target k and on: process.chdir throws when
\* the directory is missing, the failure is recorded and the next target is
\* begun.  After the third target commitAllRepositories returns.
RECURSIVE StartTarget(_, _, _, _)
StartTarget(pub, k, hist, dir) ==
  IF k > Len(Targets)
  THEN [pub |-> [pub EXCEPT !.pc = "done", !.k = k, !.dir = "none",
                            !.result = NewCommitResult("none")],
        hist |-> hist, cwd |-> dir]
  ELSE LET t == Targets[k]
       IN IF ~dirExists[t]
          THEN LET res == [NewCommitResult(t) EXCEPT !.error = <<"ENOENT">>]
               IN StartTarget([pub EXCEPT !.results = Append(@, res)], k + 1,
                              Append(hist, res), dir)
          ELSE [pub |-> [pub EXCEPT !.pc = IF k = 1 THEN "revparse" ELSE "add",
                                    !.k = k, !.dir = t, !.result = NewCommitResult(t)],
                hist |-> hist, cwd |-> t]

\* The end of one commit*Update call: commitHistory.push(result) unless the
\* call returned early, results.push(result), and the next target is begun.
FinishTarget(p, res, recorded) ==
  LET hist == IF recorded THEN Append(commitHistory, res) ELSE commitHistory
      nxt == StartTarget([pubs[p] EXCEPT !.results = Append(@, res)], pubs[p].k + 1,
                         hist, cwd)
  IN /\ pubs' = [pubs EXCEPT ![p] = nxt.pub]
     /\ commitHistory' = nxt.hist
     /\ cwd' = nxt.cwd

\* A variant of the catch that lets the error escape commitAllRepositories:
\* the call ends with the results it has.  C3 must tell it from the code.
ThrowEscapes(p, msg) ==
  /\ pubs' = [pubs EXCEPT ![p] =
       [@ EXCEPT !.pc = "done", !.dir = "none",
                 !.results = Append(@, [pubs[p].result EXCEPT !.error = <<msg>>])]]
  /\ UNCHANGED <<cwd, commitHistory>>

\* catch (error) { result.error = ... } of a commit*Update call.
Throw(p, msg) == FinishTarget(p, [pubs[p].result EXCEPT !.error = <<msg>>], TRUE)

\* exec of the next command: it runs in the process's current directory.
Exec(p, pc, res) ==
  /\ pubs' = [pubs EXCEPT ![p] = [@ EXCEPT !.pc = pc, !.dir = cwd, !.result = res]]
  /\ UNCHANGED <<cwd, commitHistory>>

\* A subprocess failing for a reason the model does not track.
Fault ==
  /\ faults < MaxFaults
  /\ faults' = faults + 1

\* commitAllRepositories from its call to its first exec.
CommitAllRepositories(forRun) ==
  /\ pubStarted < MaxPublishes
  /\ LET p == pubStarted + 1
         nxt == StartTarget([NoPub EXCEPT !.forRun = forRun], 1, commitHistory, cwd)
     IN /\ pubStarted' = p
        /\ pubs' = [pubs EXCEPT ![p] = nxt.pub]
        /\ commitHistory' = nxt.hist
        /\ cwd' = nxt.cwd

\* A caller of GitHubAutomation calls commitAllRepositories and awaits it
\* before it calls again.
PublishCall ==
  /\ \A p \in PubIds : pubs[p].pc \in {"idle", "done"}
  /\ CommitAllRepositories(0)
  /\ UNCHANGED <<syncVars, ghConfig, dirExists, isRepo, hasRemote, staged, commits,
                 pushed, unstaged>>

\* git rev-parse --git-dir settles: it fails outside a repository, and then
\* git init is run.
RevParseDone(p) ==
  /\ pubs[p].pc = "revparse"
  /\ Exec(p, IF isRepo[pubs[p].dir] THEN "add" ELSE "init", pubs[p].result)
  /\ UNCHANGED <<syncVars, ghConfig, dirExists, isRepo, hasRemote, staged, commits,
                 pushed, pubStarted, unstaged>>

\* git init settles.
GitInitDone(p, ok) ==
  /\ pubs[p].pc = "init"
  /\ IF ok
     THEN /\ isRepo' = [isRepo EXCEPT ![pubs[p].dir] = TRUE]
          /\ Exec(p, "branch", pubs[p].result)
          /\ UNCHANGED faults
     ELSE /\ Fault
          /\ Throw(p, "git init failed")
          /\ UNCHANGED isRepo
  /\ UNCHANGED <<config, kiloClient, initPc, syncInterval, lastSync, syncHistory,
                 availableSkills, craftSkills, runs, started, backups, diskFiles,
                 skillsJson, historyFile, notifications>>
  /\ UNCHANGED <<ghConfig, dirExists, hasRemote, staged, commits, pushed, pubStarted,
                 unstaged>>

\* git branch -M <branch> settles.
GitBranchDone(p, ok) ==
  /\ pubs[p].pc = "branch"
  /\ IF ok
     THEN /\ Exec(p, "remoteGet", pubs[p].result)
          /\ UNCHANGED faults
     ELSE /\ Fault
          /\ Throw(p, "git branch failed")
  /\ UNCHANGED <<config, kiloClient, initPc, syncInterval, lastSync, syncHistory,
                 availableSkills, craftSkills, runs, started, backups, diskFiles,
                 skillsJson, historyFile, notifications>>
  /\ UNCHANGED <<ghConfig, dirExists, isRepo, hasRemote, staged, commits, pushed,
                 pubStarted, unstaged>>

\* git remote get-url origin settles: it fails when no remote is registered,
\* and then gh repo create is run.
RemoteGetDone(p) ==
  /\ pubs[p].pc = "remoteGet"
  /\ Exec(p, IF hasRemote[pubs[p].dir] THEN "add" ELSE "ghCreate", pubs[p].result)
  /\ UNCHANGED <<syncVars, ghConfig, dirExists, isRepo, hasRemote, staged, commits,
                 pushed, pubStarted, unstaged>>

\* gh repo create settles; its failure is not caught short of the outer catch.
GhCreateDone(p, ok) ==
  /\ pubs[p].pc = "ghCreate"
  /\ IF ok
     THEN /\ hasRemote' = [hasRemote EXCEPT ![pubs[p].dir] = TRUE]
          /\ Exec(p, "add", pubs[p].result)
          /\ UNCHANGED faults
     ELSE /\ Fault
          /\ Throw(p, "gh repo create failed")
          /\ UNCHANGED hasRemote
  /\ UNCHANGED <<config, kiloClient, initPc, syncInterval, lastSync, syncHistory,
                 availableSkills, craftSkills, runs, started, backups, diskFiles,
                 skillsJson, historyFile, notifications>>
  /\ UNCHANGED <<ghConfig, dirExists, isRepo, staged, commits, pushed, pubStarted,
                 unstaged>>

\* git add . settles: outside a repository it fails.
GitAddDone(p, ok) ==
  /\ pubs[p].pc = "add"
  /\ IF ok
     THEN /\ isRepo[pubs[p].dir]
          /\ staged' = [staged EXCEPT ![pubs[p].dir] = @ \cup unstaged[pubs[p].dir]]
          /\ unstaged' = [unstaged EXCEPT ![pubs[p].dir] = {}]
          /\ Exec(p, "status", pubs[p].result)
          /\ UNCHANGED faults
     ELSE /\ IF isRepo[pubs[p].dir] THEN Fault ELSE UNCHANGED faults
          /\ Throw(p, "git add failed")
          /\ UNCHANGED <<staged, unstaged>>
  /\ UNCHANGED <<config, kiloClient, initPc, syncInterval, lastSync, syncHistory,
                 availableSkills, craftSkills, runs, started, backups, diskFiles,
                 skillsJson, historyFile, notifications>>
  /\ UNCHANGED <<ghConfig, dirExists, isRepo, hasRemote, commits, pushed, pubStarted>>

\* statusOutput.trim().split('\n').length: one line per changed path.
StatusLines(dir) == staged[dir] \cup unstaged[dir]

\* The commands after the status check: commit if autoCommit, else push if
\* autoPush, else the call succeeds.
AfterStatus(p, res) ==
  IF ghConfig.autoCommit THEN Exec(p, "commit", res)
  ELSE IF ghConfig.autoPush THEN Exec(p, "push", res)
  ELSE FinishTarget(p, [res EXCEPT !.success = TRUE], TRUE)

\* A variant of the status step without the early return on empty output.
\* C4 must tell it from the code.
GitStatusNoEarlyReturn(p, ok) ==
  /\ pubs[p].pc = "status"
  /\ IF ok
     THEN /\ isRepo[pubs[p].dir]
          /\ AfterStatus(p, [pubs[p].result EXCEPT
                               !.filesChanged = Cardinality(StatusLines(pubs[p].dir))])
          /\ UNCHANGED faults
     ELSE /\ IF isRepo[pubs[p].dir] THEN Fault ELSE UNCHANGED faults
          /\ Throw(p, "git status failed")
  /\ UNCHANGED <<config, kiloClient, initPc, syncInterval, lastSync, syncHistory,
                 availableSkills, craftSkills, runs, started, backups, diskFiles,
                 skillsJson, historyFile, notifications>>
  /\ UNCHANGED <<ghConfig, dirExists, isRepo, hasRemote, staged, commits, pushed,
                 pubStarted, unstaged>>

\* git status --porcelain settles.  With no output the call returns success
\* at once, before commitHistory.push.
GitStatusDone(p, ok) ==
  /\ pubs[p].pc = "status"
  /\ IF ok
     THEN /\ isRepo[pubs[p].dir]
          /\ IF StatusLines(pubs[p].dir) = {}
             THEN FinishTarget(p, [pubs[p].result EXCEPT !.success = TRUE], FALSE)
             ELSE AfterStatus(p, [pubs[p].result EXCEPT
                                    !.filesChanged = Cardinality(StatusLines(pubs[p].dir))])
          /\ UNCHANGED faults
     ELSE /\ IF isRepo[pubs[p].dir] THEN Fault ELSE UNCHANGED faults
          /\ Throw(p, "git status failed")
  /\ UNCHANGED <<config, kiloClient, initPc, syncInterval, lastSync, syncHistory,
                 availableSkills, craftSkills, runs, started, backups, diskFiles,
                 skillsJson, historyFile, notifications>>
  /\ UNCHANGED <<ghConfig, dirExists, isRepo, hasRemote, staged, commits, pushed,
                 pubStarted, unstaged>>

\* git commit settles: with nothing staged it fails.
GitCommitDone(p, ok) ==
  /\ pubs[p].pc = "commit"
  /\ IF ok
     THEN /\ isRepo[pubs[p].dir]
          /\ staged[pubs[p].dir] # {}
          /\ commits' = [commits EXCEPT ![pubs[p].dir] = @ + 1]
          /\ staged' = [staged EXCEPT ![pubs[p].dir] = {}]
          /\ Exec(p, "hash", pubs[p].result)
          /\ UNCHANGED faults
     ELSE /\ IF isRepo[pubs[p].dir] /\ staged[pubs[p].dir] # {}
             THEN Fault ELSE UNCHANGED faults
          /\ Throw(p, "git commit failed")
          /\ UNCHANGED <<commits, staged>>
  /\ UNCHANGED <<config, kiloClient, initPc, syncInterval, lastSync, syncHistory,
                 availableSkills, craftSkills, runs, started, backups, diskFiles,
                 skillsJson, historyFile, notifications>>
  /\ UNCHANGED <<ghConfig, dirExists, isRepo, hasRemote, pushed, pubStarted, unstaged>>

\* git rev-parse --short HEAD settles: the hash names the last commit of the
\* repository it ran in.
GitHashDone(p, ok) ==
  /\ pubs[p].pc = "hash"
  /\ IF ok
     THEN /\ isRepo[pubs[p].dir]
          /\ commits[pubs[p].dir] > 0
          /\ LET res == [pubs[p].result EXCEPT
                           !.commitHash = <<pubs[p].dir, commits[pubs[p].dir]>>]
             IN IF ghConfig.autoPush THEN Exec(p, "push", res)
                ELSE FinishTarget(p, [res EXCEPT !.success = TRUE], TRUE)
          /\ UNCHANGED faults
     ELSE /\ IF isRepo[pubs[p].dir] /\ commits[pubs[p].dir] > 0
             THEN Fault ELSE UNCHANGED faults
          /\ Throw(p, "git rev-parse failed")
  /\ UNCHANGED <<config, kiloClient, initPc, syncInterval, lastSync, syncHistory,
                 availableSkills, craftSkills, runs, started, backups, diskFiles,
                 skillsJson, historyFile, notifications>>
  /\ UNCHANGED <<ghConfig, dirExists, isRepo, hasRemote, staged, commits, pushed,
                 pubStarted, unstaged>>

\* git push origin <branch> settles: it fails without a remote or a commit.
CanPush(dir) == isRepo[dir] /\ hasRemote[dir] /\ commits[dir] > 0

\* A variant of the push step that swallows a failed push: the target is
\* reported as a success.  C23 must tell it from the code.
GitPushFailureIgnored(p, ok) ==
  /\ pubs[p].pc = "push"
  /\ IF ok
     THEN /\ CanPush(pubs[p].dir)
          /\ pushed' = [pushed EXCEPT ![pubs[p].dir] = commits[pubs[p].dir]]
          /\ UNCHANGED faults
     ELSE /\ IF CanPush(pubs[p].dir) THEN Fault ELSE UNCHANGED faults
          /\ UNCHANGED pushed
  /\ FinishTarget(p, [pubs[p].result EXCEPT !.success = TRUE], TRUE)
  /\ UNCHANGED <<config, kiloClient, initPc, syncInterval, lastSync, syncHistory,
                 availableSkills, craftSkills, runs, started, backups, diskFiles,
                 skillsJson, historyFile, notifications>>
  /\ UNCHANGED <<ghConfig, dirExists, isRepo, hasRemote, staged, commits, pubStarted,
                 unstaged>>

GitPushDone(p, ok) ==
  /\ pubs[p].pc = "push"
  /\ IF ok
     THEN /\ CanPush(pubs[p].dir)
          /\ pushed' = [pushed EXCEPT ![pubs[p].dir] = commits[pubs[p].dir]]
          /\ FinishTarget(p, [pubs[p].result EXCEPT !.success = TRUE], TRUE)
          /\ UNCHANGED faults
     ELSE /\ IF CanPush(pubs[p].dir) THEN Fault ELSE UNCHANGED faults
          /\ Throw(p, "git push failed")
          /\ UNCHANGED pushed
  /\ UNCHANGED <<config, kiloClient, initPc, syncInterval, lastSync, syncHistory,
                 availableSkills, craftSkills, runs, started, backups, diskFiles,
                 skillsJson, historyFile, notifications>>
  /\ UNCHANGED <<ghConfig, dirExists, isRepo, hasRemote, staged, commits, pubStarted,
                 unstaged>>

\* getStatistics: the counts taken from commitHistory.
GetStatistics ==
  [totalCommits |-> Len(commitHistory),
   successfulCommits |-> Cardinality({i \in 1..Len(commitHistory) : commitHistory[i].success}),
   failedCommits |-> Cardinality({i \in 1..Len(commitHistory) : ~commitHistory[i].success})]

\* A path of a working tree; <id>.md is named by the skill id.
PathOf(name) == <<"file", name>>

\* A file of the skills directory is written: the skills target's tree holds
\* that directory, so a changed file is an unstaged change there.
WriteFile(path, changed) ==
  unstaged' = IF changed THEN [unstaged EXCEPT !["skills"] = @ \cup {path}] ELSE unstaged

\* Somebody edits a file of a target's working tree.
EditTree(t) ==
  /\ dirExists[t]
  /\ PathOf("f") \notin unstaged[t]
  /\ unstaged' = [unstaged EXCEPT ![t] = @ \cup {PathOf("f")}]
  /\ UNCHANGED <<syncVars, gitVars>>

(***************************************************************************)
(* AutonomousSkillsSync: performSync                                       *)
(***************************************************************************)
TypeOK ==
  /\ config \in [autoSync : BOOLEAN, syncOnStartup : BOOLEAN,
                 backupBeforeSync : BOOLEAN, notifyOnChanges : BOOLEAN]
  /\ kiloClient \in {"null", "client"}
  /\ initPc \in {"new", "startup", "ready", "failed"}
  /\ syncInterval \in BOOLEAN
  /\ started \in 0..MaxRuns
  /\ faults \in 0..MaxFaults

\* catch (error) { result.success = false; result.errors.push(errorMsg) }
Catch(run, msg) ==
  [run EXCEPT !.result.success = FALSE, !.result.errors = Append(@, msg)]

\* Lines 189-192 up to the writeFile of saveSyncHistory being issued: lastSync
\* is set, the result is pushed and the last HistoryCap results are serialised.
RecordResult(rs, r, run) ==
  /\ lastSync' = run.result.timestamp
  /\ syncHistory' = Append(syncHistory, run.result)
  /\ runs' = [rs EXCEPT ![r] =
       [run EXCEPT !.pc = "saveHistory", !.currentSkills = << >>,
                   !.skillsDir = << >>, !.written = 0,
                   !.pending = HistoryToJSON(LastN(Append(syncHistory, run.result), HistoryCap))]]

\* const currentSkills = new Map(...), then syncClawdBotSkills up to the GET.
TakeSnapshot(run) ==
  [run EXCEPT !.pc = "fetchClawd", !.currentSkills = SnapshotOf(craftSkills),
              !.snapshot = craftSkills, !.pending = << >>]

\* performSync from its call to its first await.
PerformSync(origin) ==
  /\ started < MaxRuns
  /\ LET r == started + 1
         rs == [q \in RunIds |->
                  IF q \in Active THEN [runs[q] EXCEPT !.overlapped = TRUE] ELSE runs[q]]
         run == [NoRun EXCEPT !.origin = origin, !.result = NewResult(r),
                              !.overlapped = (Active # {})]
     IN /\ started' = r
        /\ runs' = [rs EXCEPT ![r] =
             IF config.backupBeforeSync
             THEN [run EXCEPT !.pc = "backup", !.pending = craftSkills]
             ELSE TakeSnapshot(run)]

\* A variant of the backup step that goes on to the snapshot when the write
\* failed.  C9 must tell it from the code.
BackupFailureSwallowed(r, ok) ==
  /\ runs[r].pc = "backup"
  /\ IF ok
     THEN /\ backups' = backups \cup {[run |-> r, content |-> runs[r].pending]}
          /\ WriteFile(PathOf("backup"), TRUE)
          /\ runs' = [runs EXCEPT ![r] = TakeSnapshot([@ EXCEPT !.backedUp = TRUE])]
          /\ UNCHANGED faults
     ELSE /\ Fault
          /\ runs' = [runs EXCEPT ![r] = TakeSnapshot(@)]
          /\ UNCHANGED <<backups, unstaged>>
  /\ UNCHANGED <<lastSync, syncHistory>>
  /\ UNCHANGED <<config, kiloClient, initPc, syncInterval, availableSkills, craftSkills,
                 started, diskFiles, skillsJson, historyFile, notifications, gitVars>>

\* backupSkills: the writeFile of the backup settles.
BackupDone(r, ok) ==
  /\ runs[r].pc = "backup"
  /\ IF ok
     THEN /\ backups' = backups \cup {[run |-> r, content |-> runs[r].pending]}
          /\ WriteFile(PathOf("backup"), TRUE)
          /\ runs' = [runs EXCEPT ![r] = TakeSnapshot([@ EXCEPT !.backedUp = TRUE])]
          /\ UNCHANGED <<lastSync, syncHistory, faults>>
     ELSE /\ Fault
          /\ RecordResult(runs, r, Catch(runs[r], "backup write failed"))
          /\ UNCHANGED <<backups, unstaged>>
  /\ UNCHANGED <<config, kiloClient, initPc, syncInterval, availableSkills, craftSkills,
                 started, diskFiles, skillsJson, historyFile, notifications, gitVars>>

\* A variant of the ClawdBot step that reads a failed GET as the empty list
\* and reconciles against it.  C21 must tell it from the code.
FetchClawdFailureAsEmpty(r, ok, response) ==
  /\ runs[r].pc = "fetchClawd"
  /\ ~ok => (response = << >> /\ Fault)
  /\ LET avail == LoadSkills(response)
         s == SyncClawdBotSkills(runs[r].currentSkills, craftSkills, avail)
         rs == Freeze(runs, s.replaced, craftSkills)
         run == [rs[r] EXCEPT !.fetchedClawd = IF ok THEN <<response>> ELSE << >>,
                              !.mutated = @ \/ (s.craft # craftSkills)]
         counted == [run EXCEPT !.result.clawdBotSkillsAdded = s.added,
                                !.result.clawdBotSkillsUpdated = s.updated,
                                !.result.clawdBotSkillsRemoved = s.removed]
     IN /\ availableSkills' = s.avail
        /\ craftSkills' = s.craft
        /\ ok => faults' = faults
        /\ IF s.threw
           THEN RecordResult(rs, r, Catch(run, "Skill not found"))
           ELSE IF kiloClient = "null"
           THEN RecordResult(rs, r, Catch(counted, "Cannot read properties of null"))
           ELSE /\ runs' = [rs EXCEPT ![r] = [counted EXCEPT !.pc = "fetchKilo"]]
                /\ UNCHANGED <<lastSync, syncHistory>>
  /\ UNCHANGED <<config, kiloClient, initPc, syncInterval, started, backups,
                 diskFiles, skillsJson, historyFile, notifications, gitVars, unstaged>>

\* syncClawdBotSkills: GET /skills settles; on success the skills are diffed
\* against currentSkills, and syncKiloTools runs up to listTools().
FetchClawdDone(r, ok, response) ==
  /\ runs[r].pc = "fetchClawd"
  /\ IF ok
     THEN LET avail == LoadSkills(response)
              s == SyncClawdBotSkills(runs[r].currentSkills, craftSkills, avail)
              rs == Freeze(runs, s.replaced, craftSkills)
              run == [rs[r] EXCEPT !.fetchedClawd = <<response>>,
                                   !.mutated = @ \/ (s.craft # craftSkills)]
              counted == [run EXCEPT !.result.clawdBotSkillsAdded = s.added,
                                     !.result.clawdBotSkillsUpdated = s.updated,
                                     !.result.clawdBotSkillsRemoved = s.removed]
          IN /\ availableSkills' = s.avail
             /\ craftSkills' = s.craft
             /\ faults' = faults
             /\ IF s.threw
                THEN RecordResult(rs, r, Catch(run, "Skill not found"))
                ELSE IF kiloClient = "null"
                THEN RecordResult(rs, r, Catch(counted, "Cannot read properties of null"))
                ELSE /\ runs' = [rs EXCEPT ![r] = [counted EXCEPT !.pc = "fetchKilo"]]
                     /\ UNCHANGED <<lastSync, syncHistory>>
     ELSE /\ response = << >>
          /\ Fault
          /\ RecordResult(runs, r, Catch(runs[r], "clawdbot fetch failed"))
          /\ UNCHANGED <<availableSkills, craftSkills>>
  /\ UNCHANGED <<config, kiloClient, initPc, syncInterval, started, backups,
                 diskFiles, skillsJson, historyFile, notifications, gitVars, unstaged>>

\* saveSkillsToDisk from its call to its first writeFile.
BeginSave(run, craft) ==
  LET dir == GenerateSkillsDirectory(craft)
  IN IF Len(dir) = 0
     THEN [run EXCEPT !.pc = "saveJson", !.pending = ExportSkillsJSON(craft)]
     ELSE [run EXCEPT !.pc = "saveFiles", !.skillsDir = dir, !.written = 0]

\* syncKiloTools: listTools() settles; on success the tools are diffed, the
\* total is taken and saveSkillsToDisk issues its first write.
FetchKiloDone(r, ok, tools) ==
  /\ runs[r].pc = "fetchKilo"
  /\ IF ok
     THEN LET s == SyncKiloTools(runs[r].currentSkills, craftSkills, availableSkills, tools)
              run == [runs[r] EXCEPT !.fetchedKilo = <<tools>>,
                                     !.mutated = @ \/ (s.craft # craftSkills)]
              counted == [run EXCEPT !.result.kiloToolsAdded = s.added,
                                     !.result.kiloToolsUpdated = s.updated,
                                     !.result.kiloToolsRemoved = s.removed,
                                     !.result.totalSkills = Len(s.craft)]
          IN /\ availableSkills' = s.avail
             /\ craftSkills' = s.craft
             /\ faults' = faults
             /\ IF s.threw
                THEN RecordResult(runs, r, Catch(run, "Skill not found"))
                ELSE /\ runs' = [runs EXCEPT ![r] = BeginSave(counted, s.craft)]
                     /\ UNCHANGED <<lastSync, syncHistory>>
     ELSE /\ tools = << >>
          /\ Fault
          /\ RecordResult(runs, r, Catch(runs[r], "kilo fetch failed"))
          /\ UNCHANGED <<availableSkills, craftSkills>>
  /\ UNCHANGED <<config, kiloClient, initPc, syncInterval, started, backups,
                 diskFiles, skillsJson, historyFile, notifications, gitVars, unstaged>>

\* saveSkillsToDisk: the writeFile of one <id>.md settles.
SaveFileDone(r, ok) ==
  /\ runs[r].pc = "saveFiles"
  /\ IF ok
     THEN LET f == runs[r].skillsDir[runs[r].written + 1]
              run == [runs[r] EXCEPT !.written = @ + 1, !.wrote = TRUE]
          IN /\ diskFiles' = [diskFiles EXCEPT ![f.file] = <<f.content>>]
             /\ WriteFile(f.file, diskFiles[f.file] # <<f.content>>)
             /\ runs' = [runs EXCEPT ![r] =
                  IF run.written = Len(run.skillsDir)
                  THEN [run EXCEPT !.pc = "saveJson", !.pending = ExportSkillsJSON(craftSkills)]
                  ELSE run]
             /\ UNCHANGED <<lastSync, syncHistory, faults>>
     ELSE /\ Fault
          /\ RecordResult(runs, r, Catch(runs[r], "snapshot write failed"))
          /\ UNCHANGED <<diskFiles, unstaged>>
  /\ UNCHANGED <<config, kiloClient, initPc, syncInterval, availableSkills, craftSkills,
                 started, backups, skillsJson, historyFile, notifications, gitVars>>

\* saveSkillsToDisk: the writeFile of skills.json settles; on success the run
\* is marked successful and notifyChanges is called if configured.
SaveJsonDone(r, ok) ==
  /\ runs[r].pc = "saveJson"
  /\ IF ok
     THEN LET run == [runs[r] EXCEPT !.result.success = TRUE, !.wrote = TRUE,
                                     !.saved = TRUE]
          IN /\ skillsJson' = <<runs[r].pending>>
             /\ WriteFile(PathOf("skills.json"), skillsJson # <<runs[r].pending>>)
             /\ notifications' =
                  IF config.notifyOnChanges /\ HasChanges(run.result)
                  THEN Append(notifications, run.result.timestamp)
                  ELSE notifications
             /\ faults' = faults
             /\ RecordResult(runs, r, run)
     ELSE /\ Fault
          /\ RecordResult(runs, r, Catch(runs[r], "snapshot write failed"))
          /\ UNCHANGED <<skillsJson, notifications, unstaged>>
  /\ UNCHANGED <<config, kiloClient, initPc, syncInterval, availableSkills, craftSkills,
                 started, backups, diskFiles, historyFile, gitVars>>

\* A variant of index.ts triggerSync that publishes whatever the result says.
\* C11 must tell it from the code.
ShouldPublishAnyResult(r, ok) == runs[r].origin = "manual" /\ ok

\* index.ts triggerSync after `await this.autonomousSync.triggerSync()`: the
\* await resolved (ok) and `if (syncResult.success)`.
ShouldPublish(r, ok) == runs[r].origin = "manual" /\ ok /\ runs[r].result.success

\* saveSyncHistory: the writeFile settles and performSync returns its result,
\* or rejects when the write failed.  A startup run resumes initialize
\* (startAutoSync if autoSync); a manual run resumes index.ts triggerSync,
\* which calls commitAllRepositories if the result says success.
SaveHistoryDone(r, ok) ==
  /\ runs[r].pc = "saveHistory"
  /\ IF ok
     THEN /\ historyFile' = <<runs[r].pending>>
          /\ WriteFile(PathOf("sync-history.json"), historyFile # <<runs[r].pending>>)
          /\ faults' = faults
     ELSE /\ Fault
          /\ UNCHANGED <<historyFile, unstaged>>
  /\ runs' = [runs EXCEPT ![r] = [@ EXCEPT !.pc = IF ok THEN "returned" ELSE "rejected",
                                           !.pending = << >>]]
  /\ IF runs[r].origin = "startup"
     THEN IF ok
          THEN /\ initPc' = "ready"
               /\ syncInterval' = (config.autoSync \/ syncInterval)
          ELSE /\ initPc' = "failed"
               /\ UNCHANGED syncInterval
     ELSE UNCHANGED <<initPc, syncInterval>>
  /\ IF ShouldPublish(r, ok)
     THEN CommitAllRepositories(r)
     ELSE UNCHANGED <<pubs, pubStarted, commitHistory, cwd>>
  /\ UNCHANGED <<config, kiloClient, lastSync, syncHistory, availableSkills, craftSkills,
                 started, backups, diskFiles, skillsJson, notifications>>
  /\ UNCHANGED <<ghConfig, dirExists, isRepo, hasRemote, staged, commits, pushed>>

(***************************************************************************)
(* Scheduling: initialize, the timer, the manual trigger                   *)
(***************************************************************************)
\* loadSyncHistory: a missing or unreadable file gives the empty history.
LoadSyncHistory(file) == IF file = << >> THEN << >> ELSE file[1]

\* new Date(this.syncHistory[this.syncHistory.length - 1].timestamp)
LastSyncOf(h, old) == IF Len(h) > 0 THEN DateOf(h[Len(h)].timestamp[2]) ELSE old

\* ClawdBotKimiKiloCraftIntegration.initialize down to the startup run's first
\* await (or to its end when syncOnStartup is off): connect, the adapter's
\* initialize, AutonomousSkillsSync.initialize.
Initialize(ok, response) ==
  /\ initPc = "new"
  /\ IF ok
     THEN /\ availableSkills' = LoadSkills(response)
          /\ craftSkills' = AdapterInitialize(craftSkills, LoadSkills(response))
          /\ syncHistory' = LoadSyncHistory(historyFile)
          /\ lastSync' = LastSyncOf(LoadSyncHistory(historyFile), lastSync)
          /\ faults' = faults
          /\ IF config.syncOnStartup
             THEN /\ initPc' = "startup"
                  /\ started' = 1
                  /\ runs' = [runs EXCEPT ![1] =
                       LET run == [NoRun EXCEPT !.origin = "startup", !.result = NewResult(1)]
                           craft == AdapterInitialize(craftSkills, LoadSkills(response))
                       IN IF config.backupBeforeSync
                          THEN [run EXCEPT !.pc = "backup", !.pending = craft]
                          ELSE [run EXCEPT !.pc = "fetchClawd",
                                           !.currentSkills = SnapshotOf(craft),
                                           !.snapshot = craft]]
                  /\ UNCHANGED syncInterval
             ELSE /\ initPc' = "ready"
                  /\ syncInterval' = config.autoSync
                  /\ UNCHANGED <<runs, started>>
     ELSE /\ response = << >>
          /\ Fault
          /\ initPc' = "failed"
          /\ UNCHANGED <<availableSkills, craftSkills, syncHistory, lastSync, runs,
                         started, syncInterval>>
  /\ UNCHANGED <<config, kiloClient, backups, diskFiles, skillsJson, historyFile,
                 notifications, gitVars, unstaged>>

\* The runs started by the integration class's triggerSync.
ManualRuns == {q \in 1..started : runs[q].origin = "manual"}

\* A variant of the timer whose callback still fires after stopAutoSync, as
\* if the interval were never cleared.  C17 must tell it from the code.
TimerFireNotCleared ==
  /\ initPc = "ready"
  /\ config.autoSync
  /\ PerformSync("timer")
  /\ UNCHANGED <<config, kiloClient, initPc, syncInterval, lastSync, syncHistory,
                 availableSkills, craftSkills, faults, backups, diskFiles, skillsJson,
                 historyFile, notifications, gitVars, unstaged>>

\* The setInterval callback of startAutoSync.
TimerFire ==
  /\ syncInterval
  /\ PerformSync("timer")
  /\ UNCHANGED <<config, kiloClient, initPc, syncInterval, lastSync, syncHistory,
                 availableSkills, craftSkills, faults, backups, diskFiles, skillsJson,
                 historyFile, notifications, gitVars, unstaged>>

\* ClawdBotKimiKiloCraftIntegration.triggerSync down to performSync's first await.
TriggerSync ==
  /\ initPc = "ready"
  /\ Cardinality(ManualRuns) < MaxManual
  /\ PerformSync("manual")
  /\ UNCHANGED <<config, kiloClient, initPc, syncInterval, lastSync, syncHistory,
                 availableSkills, craftSkills, faults, backups, diskFiles, skillsJson,
                 historyFile, notifications, gitVars, unstaged>>

\* startAutoSync, called by the application after initialize.
StartAutoSync ==
  /\ initPc = "ready"
  /\ ~syncInterval
  /\ syncInterval' = TRUE
  /\ UNCHANGED <<config, kiloClient, initPc, lastSync, syncHistory, availableSkills,
                 craftSkills, runs, started, faults, backups, diskFiles, skillsJson,
                 historyFile, notifications, gitVars, unstaged>>

\* stopAutoSync
StopAutoSync ==
  /\ initPc = "ready"
  /\ syncInterval
  /\ syncInterval' = FALSE
  /\ UNCHANGED <<config, kiloClient, initPc, lastSync, syncHistory, availableSkills,
                 craftSkills, runs, started, faults, backups, diskFiles, skillsJson,
                 historyFile, notifications, gitVars, unstaged>>

(***************************************************************************)
(* The system                                                              *)
(***************************************************************************)
\* The constructor's defaults, and the configurations with one flag turned off.
DefaultConfig ==
  [autoSync |-> TRUE, syncOnStartup |-> TRUE, backupBeforeSync |-> TRUE,
   notifyOnChanges |-> TRUE]
Configs ==
  {DefaultConfig,
   [DefaultConfig EXCEPT !.autoSync = FALSE],
   [DefaultConfig EXCEPT !.syncOnStartup = FALSE],
   [DefaultConfig EXCEPT !.backupBeforeSync = FALSE],
   [DefaultConfig EXCEPT !.notifyOnChanges = FALSE]}

\* GitHubAutomation's defaults (part_007 autonomousConfig), autoPush off
\* (part_007 devConfig), autoCommit off.
DefaultGitHubConfig == [autoCommit |-> TRUE, autoPush |-> TRUE]
GitHubConfigs ==
  {DefaultGitHubConfig,
   [DefaultGitHubConfig EXCEPT !.autoPush = FALSE],
   [DefaultGitHubConfig EXCEPT !.autoCommit = FALSE]}

\* The state after the constructors of index.ts have run.  kiloClient is null
\* as index.ts wires it, or a client as a caller of AutonomousSkillsSync may
\* pass one; sync-history.json is missing or was left full by an earlier
\* process.
Init ==
  /\ config \in Configs
  /\ kiloClient \in {"null", "client"}
  /\ (kiloClient = "null" => config = DefaultConfig)
  /\ initPc = "new"
  /\ syncInterval = FALSE
  /\ lastSync = << >>
  /\ syncHistory = << >>
  /\ availableSkills = << >>
  /\ craftSkills = << >>
  /\ runs = [q \in RunIds |-> NoRun]
  /\ started = 0
  /\ faults = 0
  /\ backups = {}
  /\ diskFiles = [f \in CraftIds |-> << >>]
  /\ skillsJson = << >>
  /\ historyFile \in {<< >>, <<FullHistoryFile>>}
  /\ (historyFile # << >> => config = DefaultConfig /\ kiloClient = "client")
  /\ notifications = << >>
  /\ ghConfig \in GitHubConfigs
  /\ (ghConfig # DefaultGitHubConfig => config = DefaultConfig /\ kiloClient = "client"
                                         /\ historyFile = << >>)
  /\ cwd = "none"
  /\ dirExists \in {[t \in TargetSet |-> TRUE], [t \in TargetSet |-> t # "integration"]}
  /\ isRepo \in {[t \in TargetSet |-> b] : b \in BOOLEAN}
  /\ hasRemote = isRepo
  /\ (\E t \in TargetSet : ~dirExists[t] \/ ~isRepo[t])
        => (config = DefaultConfig /\ kiloClient = "client" /\ historyFile = << >>
            /\ ghConfig = DefaultGitHubConfig)
  /\ unstaged = [t \in TargetSet |-> {}]
  /\ staged = [t \in TargetSet |-> {}]
  /\ commits = [t \in TargetSet |-> 0]
  /\ pushed = [t \in TargetSet |-> 0]
  /\ commitHistory = << >>
  /\ pubs = [p \in PubIds |-> NoPub]
  /\ pubStarted = 0

Next ==
  \/ \E ok \in BOOLEAN, response \in ClawdLists : Initialize(ok, response)
  \/ TimerFire
  \/ TriggerSync
  \/ StartAutoSync
  \/ StopAutoSync
  \/ \E r \in RunIds, ok \in BOOLEAN : BackupDone(r, ok)
  \/ \E r \in RunIds, ok \in BOOLEAN, response \in ClawdLists : FetchClawdDone(r, ok, response)
  \/ \E r \in RunIds, ok \in BOOLEAN, tools \in KiloLists : FetchKiloDone(r, ok, tools)
  \/ \E r \in RunIds, ok \in BOOLEAN : SaveFileDone(r, ok)
  \/ \E r \in RunIds, ok \in BOOLEAN : SaveJsonDone(r, ok)
  \/ \E r \in RunIds, ok \in BOOLEAN : SaveHistoryDone(r, ok)
  \/ \E p \in PubIds : RevParseDone(p)
  \/ \E p \in PubIds, ok \in BOOLEAN : GitInitDone(p, ok)
  \/ \E p \in PubIds, ok \in BOOLEAN : GitBranchDone(p, ok)
  \/ \E p \in PubIds : RemoteGetDone(p)
  \/ \E p \in PubIds, ok \in BOOLEAN : GhCreateDone(p, ok)
  \/ \E p \in PubIds, ok \in BOOLEAN : GitAddDone(p, ok)
  \/ \E p \in PubIds, ok \in BOOLEAN : GitStatusDone(p, ok)
  \/ \E p \in PubIds, ok \in BOOLEAN : GitCommitDone(p, ok)
  \/ \E p \in PubIds, ok \in BOOLEAN : GitHashDone(p, ok)
  \/ \E p \in PubIds, ok \in BOOLEAN : GitPushDone(p, ok)

\* The integration class as index.ts wires it: the only changes to the working
\* trees are the files the runs write.
Spec == Init /\ [][Next]_vars

\* GitHubAutomation on its own: a caller publishes, git answers, the trees
\* are edited between the calls.
GitNext ==
  \/ PublishCall
  \/ \E p \in PubIds : RevParseDone(p)
  \/ \E p \in PubIds, ok \in BOOLEAN : GitInitDone(p, ok)
  \/ \E p \in PubIds, ok \in BOOLEAN : GitBranchDone(p, ok)
  \/ \E p \in PubIds : RemoteGetDone(p)
  \/ \E p \in PubIds, ok \in BOOLEAN : GhCreateDone(p, ok)
  \/ \E p \in PubIds, ok \in BOOLEAN : GitAddDone(p, ok)
  \/ \E p \in PubIds, ok \in BOOLEAN : GitStatusDone(p, ok)
  \/ \E p \in PubIds, ok \in BOOLEAN : GitCommitDone(p, ok)
  \/ \E p \in PubIds, ok \in BOOLEAN : GitHashDone(p, ok)
  \/ \E p \in PubIds, ok \in BOOLEAN : GitPushDone(p, ok)
  \/ \E t \in TargetSet : EditTree(t)

SpecPublish == Init /\ [][GitNext]_vars

(***************************************************************************)
(* The scheduler                                                           *)
(***************************************************************************)
\* C1: at most one performSync is in progress at any time.
C1_AtMostOneSyncInProgress == Cardinality(Active) <= 1

\* C2: a manual trigger that arrives while a run is in progress starts no run
\* (it fails with AlreadyRunning): every step that starts a manual run is
\* taken with no run in progress.
C2_ManualTriggerOnlyWhenIdle ==
  [][(started' = started + 1 /\ runs'[started + 1].origin = "manual")
       => Active = {}]_vars

C4_NoChangesNoCommit ==
  [][\A p \in PubIds :
       /\ (GitStatusDone(p, TRUE) /\ StatusLines(pubs[p].dir) = {}) =>
            LET n == Len(pubs[p].results) + 1
            IN /\ Len(pubs'[p].results) >= n
               /\ pubs'[p].results[n].success
               /\ pubs'[p].results[n].filesChanged = 0
               /\ pubs'[p].results[n].commitHash = << >>
               /\ pubs'[p].results[n].error = << >>
               /\ pubs'[p].pc \notin {"commit", "hash", "push"}
               /\ commits' = commits
               /\ pushed' = pushed
       /\ \A t \in TargetSet : commits'[t] # commits[t] => StatusLines(t) # {}]_vars

\* C4's case: a first publish committed the skills tree, and a second publish
\* of the unchanged tree has returned success for it with nothing changed, no
\* hash and no further commit.
C4_Witness ==
  /\ pubStarted >= 2
  /\ pubs[1].pc = "done" /\ pubs[2].pc = "done"
  /\ pubs[1].results[1].commitHash # << >>
  /\ pubs[2].results[1].success
  /\ pubs[2].results[1].filesChanged = 0
  /\ pubs[2].results[1].commitHash = << >>
  /\ commits["skills"] = 1

(***************************************************************************)
(* The reconciler.  What a run should report is stated from the entity set *)
(* the run took as its snapshot and the lists its fetches returned.  The   *)
(* statements are about runs that no other run overlapped.                 *)
(***************************************************************************)
\* The run went through both fetches, alone, and has ended.
Reconciled(r) ==
  /\ runs[r].pc \in Ended
  /\ ~runs[r].overlapped
  /\ runs[r].fetchedClawd # << >>
  /\ runs[r].fetchedKilo # << >>

Deltas(res) ==
  <<res.clawdBotSkillsAdded, res.clawdBotSkillsUpdated, res.clawdBotSkillsRemoved,
    res.kiloToolsAdded, res.kiloToolsUpdated, res.kiloToolsRemoved>>

\* C5: when two runs in a row fetched the same ClawdBot list and the same Kilo
\* list, the second run's six delta counts are all zero.
C5_SecondRunHasNoDeltas ==
  \A r \in RunIds :
    (/\ r > 1
     /\ Reconciled(r - 1) /\ Reconciled(r)
     /\ runs[r - 1].result.success
     /\ runs[r].fetchedClawd = runs[r - 1].fetchedClawd
     /\ runs[r].fetchedKilo = runs[r - 1].fetchedKilo)
    => Deltas(runs[r].result) = <<0, 0, 0, 0, 0, 0>>

\* The fetched ClawdBot skills of run r whose id the snapshot lacks, and those
\* whose id it holds with another (name, description, enabled, configuration).
ClawdFetched(r) == runs[r].fetchedClawd[1]
ClawdAbsent(r) ==
  {i \in 1..Len(ClawdFetched(r)) : ~MapHas(runs[r].snapshot, CraftId(ClawdFetched(r)[i].id))}
ClawdDiffering(r) ==
  {i \in 1..Len(ClawdFetched(r)) :
     /\ MapHas(runs[r].snapshot, CraftId(ClawdFetched(r)[i].id))
     /\ LET old == MapGet(runs[r].snapshot, CraftId(ClawdFetched(r)[i].id))
            new == ClawdFetched(r)[i]
        IN <<old.name, old.description, old.enabled, old.configuration>>
             # <<new.name, new.description, new.enabled, new.configuration>>}

\* C6: in a run whose ClawdBot fetch succeeded, the added count is the number
\* of fetched skills absent from the snapshot and the updated count is the
\* number of fetched skills present in it and different.
C6_AddedAndUpdatedCounts ==
  \A r \in RunIds :
    (runs[r].pc \in Ended /\ ~runs[r].overlapped /\ runs[r].fetchedClawd # << >>)
    => /\ runs[r].result.clawdBotSkillsAdded = Cardinality(ClawdAbsent(r))
       /\ runs[r].result.clawdBotSkillsUpdated = Cardinality(ClawdDiffering(r))

\* The ClawdBot skills of run r's snapshot whose id was not fetched.
ClawdGone(r) ==
  {i \in 1..Len(runs[r].snapshot) :
     /\ runs[r].snapshot[i].source = "clawdbot"
     /\ \A j \in 1..Len(ClawdFetched(r)) :
          CraftId(ClawdFetched(r)[j].id) # runs[r].snapshot[i].id}

\* C7: in a run whose fetches succeeded and whose writes succeeded, the removed
\* count is the number of snapshot skills of the source that were not fetched,
\* and the run ends with success = true, an empty fetched list included.
C7_RemovedCountAndSuccess ==
  \A r \in RunIds :
    (runs[r].pc \in Ended /\ ~runs[r].overlapped /\ runs[r].fetchedClawd # << >>
       /\ faults = 0 /\ kiloClient = "client")
    => /\ runs[r].result.clawdBotSkillsRemoved = Cardinality(ClawdGone(r))
       /\ runs[r].result.success

(***************************************************************************)
(* The history                                                             *)
(***************************************************************************)
\* C8: the history held in memory, whose length getStatus().totalSyncs
\* reports, never holds more than HistoryCap results.
C8_HistoryWithinCap == Len(syncHistory) <= HistoryCap

(***************************************************************************)
(* Backup, snapshot, publish                                               *)
(***************************************************************************)
BackupOf(r) == {b \in backups : b.run = r}

\* C9: with backupBeforeSync on, a run has mutated an entity, written a file
\* of the snapshot or succeeded only with its backup written, and that backup
\* holds the entity set the run then took as its snapshot; while the backup
\* write is in flight nothing is mutated or written; and a run that went on
\* without a backup has failed, with nothing mutated and nothing written.
C9_BackupBeforeMutation ==
  config.backupBeforeSync =>
    \A r \in RunIds :
      /\ (runs[r].mutated \/ runs[r].wrote \/ runs[r].result.success) =>
            /\ BackupOf(r) # {}
            /\ ~runs[r].overlapped => \A b \in BackupOf(r) : b.content = runs[r].snapshot
      /\ runs[r].pc = "backup" =>
            ~runs[r].mutated /\ ~runs[r].wrote /\ BackupOf(r) = {}
      /\ (runs[r].pc \notin {"unstarted", "backup"} /\ BackupOf(r) = {}) =>
            /\ ~runs[r].mutated /\ ~runs[r].wrote
            /\ ~runs[r].result.success
            /\ runs[r].result.errors # << >>
            /\ runs[r].pc \in Ended \cup {"saveHistory"}

\* C9's case: one run's backup write failed and the run ended failed with
\* nothing mutated or written; another run wrote its backup, then mutated the
\* entity set, wrote the snapshot and succeeded.
C9_Witness ==
  /\ config.backupBeforeSync
  /\ \E r \in RunIds :
       /\ runs[r].pc \in Ended /\ BackupOf(r) = {}
       /\ ~runs[r].result.success /\ ~runs[r].mutated /\ ~runs[r].wrote
  /\ \E r \in RunIds :
       /\ runs[r].pc \in Ended /\ BackupOf(r) # {}
       /\ runs[r].result.success /\ runs[r].mutated /\ runs[r].wrote

\* C10: every run that has ended with its snapshot written (success = true),
\* whatever started it, has a publish started for it.
C10_SuccessfulRunIsPublished ==
  \A r \in RunIds :
    (runs[r].pc \in Ended /\ runs[r].result.success)
    => \E p \in PubIds : pubs[p].pc # "idle" /\ pubs[p].forRun = r

\* C11: a result says success only if the run's saveSkillsToDisk completed,
\* and a publish is started only for a run that returned such a result.
C11_PublishOnlyAfterSnapshot ==
  /\ \A r \in RunIds : runs[r].result.success => runs[r].saved
  /\ \A p \in PubIds :
       (pubs[p].pc # "idle" /\ pubs[p].forRun # 0) =>
         /\ runs[pubs[p].forRun].pc = "returned"
         /\ runs[pubs[p].forRun].result.success
         /\ runs[pubs[p].forRun].saved

\* C11's case: a manual run wrote its snapshot, returned success, and the
\* publish started for it has run to its end.
C11_Witness ==
  \E p \in PubIds : /\ pubs[p].pc = "done" /\ pubs[p].forRun # 0
                     /\ runs[pubs[p].forRun].saved
                     /\ runs[pubs[p].forRun].result.success

(***************************************************************************)
(* Failures                                                                *)
(***************************************************************************)
Errors(r) == {runs[r].result.errors[i] : i \in 1..Len(runs[r].result.errors)}

\* C12: a run whose ClawdBot fetch failed still fetches and reconciles the
\* Kilo tools; the failure is in its errors.
C12_RunContinuesWithOtherSource ==
  \A r \in RunIds :
    (runs[r].pc \in Ended /\ kiloClient = "client"
       /\ "clawdbot fetch failed" \in Errors(r))
    => runs[r].fetchedKilo # << >>

\* C13: every performSync that has ended returned its result, whatever
\* failed, and appended exactly one entry to the history.
C13_EveryRunReturnsAResult ==
  \A r \in RunIds :
    runs[r].pc \in Ended =>
      /\ runs[r].pc = "returned"
      /\ Cardinality({i \in 1..Len(syncHistory) :
                        syncHistory[i].timestamp = runs[r].result.timestamp}) = 1

\* The files of the skills directory are one whole snapshot: none at all, or
\* skills.json and, for exactly the skills it lists, the <id>.md of each.
DiskSnapshotWhole ==
  IF skillsJson = << >>
  THEN \A f \in CraftIds : diskFiles[f] = << >>
  ELSE LET c == skillsJson[1][2]
       IN /\ \A i \in 1..Len(c) :
               diskFiles[c[i].id] = <<GenerateSkillsDirectory(c)[i].content>>
          /\ \A f \in CraftIds \ MapIds(c) : diskFiles[f] = << >>

\* C14: when no run is in progress, and no two runs ever overlapped, the
\* snapshot on disk is whole, a failed saveSkillsToDisk included.
C14_SnapshotAllOrNothing ==
  (Active = {} /\ \A r \in RunIds : ~runs[r].overlapped) => DiskSnapshotWhole

\* C15: when registering the remote of a freshly initialised target fails,
\* the call goes on to stage that same target (git add), and records no
\* failed result for it.
C15_RemoteFailureNotFatal ==
  [][\A p \in PubIds :
       GhCreateDone(p, FALSE) =>
         /\ pubs'[p].pc = "add"
         /\ pubs'[p].k = pubs[p].k
         /\ pubs'[p].results = pubs[p].results]_vars

\* The targets of a publish call whose result is a failure.
FailedTargets(p) == {i \in 1..Len(pubs[p].results) : ~pubs[p].results[i].success}

TimerRunStarts == started' = started + 1 /\ runs'[started + 1].origin = "timer"

\* The next step of run r: the I/O call it awaits settles.
RunStep(r) ==
  \E ok \in BOOLEAN :
    \/ BackupDone(r, ok)
    \/ \E response \in ClawdLists : FetchClawdDone(r, ok, response)
    \/ \E tools \in KiloLists : FetchKiloDone(r, ok, tools)
    \/ SaveFileDone(r, ok)
    \/ SaveJsonDone(r, ok)
    \/ SaveHistoryDone(r, ok)

\* C17: a timer-triggered run starts only while the timer is armed, and after
\* stopAutoSync the timer is armed again only by startAutoSync (or by
\* initialize); stopAutoSync leaves the runs in progress and the history as
\* they are, and a run in progress can always take its next step.
C17_StopDisarmsAndDoesNotInterrupt ==
  /\ [][TimerRunStarts => syncInterval]_vars
  /\ [][(~syncInterval /\ syncInterval') => (StartAutoSync \/ initPc # "ready")]_vars
  /\ [][StopAutoSync => (~syncInterval' /\ runs' = runs /\ syncHistory' = syncHistory)]_vars
  /\ [](\A r \in Active : ENABLED RunStep(r))

\* C17's case: the timer has been stopped while the run it started is still
\* in progress; that run has come to its end with success and its result is
\* in the history, the history write in flight.
C17_Witness ==
  /\ initPc = "ready" /\ ~syncInterval
  /\ \E r \in RunIds :
       /\ runs[r].origin = "timer" /\ runs[r].pc = "saveHistory"
       /\ runs[r].result.success
       /\ \E i \in 1..Len(syncHistory) : syncHistory[i].timestamp = runs[r].result.timestamp

\* The runs initialize started.
StartupRuns == {q \in 1..started : runs[q].origin = "startup"}

\* C18: initialize starts one run at once if and only if syncOnStartup is
\* set, with the timer not armed while that run is in progress; at the step
\* where initialize ends, after that run ended if there was one, the timer is
\* armed if and only if autoSync is set.
C18_InitializeRunsThenArms ==
  [][/\ (initPc = "new" /\ initPc' = "startup") =>
          (config.syncOnStartup /\ StartupRuns' = {1} /\ ~syncInterval')
     /\ (initPc = "new" /\ initPc' = "ready") =>
          (~config.syncOnStartup /\ started' = 0 /\ syncInterval' = config.autoSync)
     /\ (initPc = "startup" /\ initPc' = "startup") =>
          (~syncInterval' /\ StartupRuns' = {1} /\ started' = 1)
     /\ (initPc = "startup" /\ initPc' # "startup") =>
          (runs'[1].pc \in Ended /\ syncInterval' = config.autoSync)]_vars

(***************************************************************************)
(* Notification                                                            *)
(***************************************************************************)
Notified(r) == \E i \in 1..Len(notifications) : notifications[i] = runs[r].result.timestamp

\* C19: hasChanges is true of a result exactly when one of its six counts is
\* not zero; a run is notified at most once, only with notifyOnChanges on,
\* only when it succeeded and hasChanges is true of its result; and a
\* successful run with changes is notified when notifyOnChanges is on.
C19_NotifyOnlyOnChanges ==
  \A r \in RunIds :
    /\ HasChanges(runs[r].result) <=> (Deltas(runs[r].result) # <<0, 0, 0, 0, 0, 0>>)
    /\ Notified(r) =>
         /\ config.notifyOnChanges
         /\ runs[r].result.success
         /\ Deltas(runs[r].result) # <<0, 0, 0, 0, 0, 0>>
         /\ Cardinality({i \in 1..Len(notifications) :
                           notifications[i] = runs[r].result.timestamp}) = 1
    /\ (runs[r].result.success /\ config.notifyOnChanges /\ HasChanges(runs[r].result))
         => Notified(r)

\* C19's case: one run succeeded with a change and was notified; another
\* succeeded with all six counts zero and was not.
C19_Witness ==
  /\ \E r \in RunIds : runs[r].result.success /\ Notified(r)
  /\ \E r \in RunIds : /\ runs[r].pc \in Ended /\ runs[r].result.success
                         /\ Deltas(runs[r].result) = <<0, 0, 0, 0, 0, 0>>
                         /\ ~Notified(r)

(***************************************************************************)
(* The written snapshot                                                    *)
(***************************************************************************)
\* The skills listed by skills.json as it is on disk.
WrittenSkills == skillsJson[1][2]

\* Run r went through both fetches alone, saved its snapshot, and no later
\* run has saved one over it.
LastSaved(r) ==
  /\ Reconciled(r) /\ runs[r].saved
  /\ \A q \in RunIds : q > r => ~runs[q].saved

KiloFetched(r) == runs[r].fetchedKilo[1]

\* C20: the snapshot a successful run wrote holds every added or updated
\* ClawdBot skill with the fetched content and every added Kilo tool, holds
\* no skill the run found removed, and totalSkills is its size.
C20_SnapshotReflectsChanges ==
  \A r \in RunIds :
    LastSaved(r) =>
      /\ \A i \in ClawdAbsent(r) \cup ClawdDiffering(r) :
           /\ MapHas(WrittenSkills, CraftId(ClawdFetched(r)[i].id))
           /\ MapGet(WrittenSkills, CraftId(ClawdFetched(r)[i].id))
                = ConvertToCraftSkill(ClawdFetched(r)[i])
      /\ \A i \in 1..Len(KiloFetched(r)) :
           ~MapHas(runs[r].snapshot, KiloId(KiloFetched(r)[i].name))
             => MapHas(WrittenSkills, KiloId(KiloFetched(r)[i].name))
      /\ \A i \in ClawdGone(r) : ~MapHas(WrittenSkills, runs[r].snapshot[i].id)
      /\ runs[r].result.totalSkills = Len(WrittenSkills)

(***************************************************************************)
(* A failed fetch                                                          *)
(***************************************************************************)
\* C21: a fetch that throws is not read as an empty list.  The step at which
\* a source's fetch fails changes no skill of the adapter or the client and
\* reports no removal of that source; and a run whose ClawdBot fetch failed
\* has, to its end, reconciled nothing: it reports no ClawdBot removal and has
\* changed no skill.
C21_FailedFetchIsNotEmptyList ==
  /\ [][\A r \in RunIds :
          /\ FetchClawdDone(r, FALSE, << >>) =>
               /\ craftSkills' = craftSkills
               /\ availableSkills' = availableSkills
               /\ runs'[r].result.clawdBotSkillsRemoved = 0
          /\ FetchKiloDone(r, FALSE, << >>) =>
               /\ craftSkills' = craftSkills
               /\ availableSkills' = availableSkills
               /\ runs'[r].result.kiloToolsRemoved = 0]_vars
  /\ [](\A r \in RunIds :
          /\ "clawdbot fetch failed" \in Errors(r) =>
               /\ runs[r].result.clawdBotSkillsRemoved = 0
               /\ ~runs[r].mutated
               /\ runs[r].fetchedClawd = << >>
          /\ "kilo fetch failed" \in Errors(r) =>
               /\ runs[r].result.kiloToolsRemoved = 0
               /\ runs[r].fetchedKilo = << >>)

\* C21's case: a run whose ClawdBot fetch failed has ended; its snapshot held
\* an enabled ClawdBot skill, which the adapter still holds enabled.
C21_Witness ==
  \E r \in RunIds :
    /\ runs[r].pc \in Ended
    /\ "clawdbot fetch failed" \in Errors(r)
    /\ \E i \in 1..Len(runs[r].snapshot) :
         /\ runs[r].snapshot[i].source = "clawdbot"
         /\ runs[r].snapshot[i].enabled
         /\ MapHas(craftSkills, runs[r].snapshot[i].id)
         /\ MapGet(craftSkills, runs[r].snapshot[i].id).enabled

(***************************************************************************)
(* The history file                                                        *)
(***************************************************************************)
\* Every run so far has returned, its history write done.
AllReturned == started > 0 /\ \A r \in 1..started : runs[r].pc = "returned"

\* C22: once every run has returned, sync-history.json holds the last
\* HistoryCap results of the history in append order; what initialize would
\* load from the file is that sequence, with lastSync the timestamp of its
\* last entry; and a missing file loads as the empty history.
C22_HistoryRoundTrips ==
  /\ AllReturned => historyFile = <<HistoryToJSON(LastN(syncHistory, HistoryCap))>>
  /\ historyFile # << >> =>
       LET h == LoadSyncHistory(historyFile)
       IN /\ h = historyFile[1]
          /\ Len(h) > 0 => LastSyncOf(h, << >>) = DateOf(h[Len(h)].timestamp[2])
  /\ LoadSyncHistory(<< >>) = << >>

(***************************************************************************)
(* The publisher: commit and push                                          *)
(***************************************************************************)
\* C23: when git push fails for a target whose commit was made in this call,
\* the target's result is a failure with its error set, it keeps the hash of
\* the commit and the filesChanged count, the commit stays in the local
\* repository, and the call goes on to the next target or, after the third,
\* returns with all three results.
C23_PushFailureKeepsCommit ==
  [][\A p \in PubIds :
       (GitPushDone(p, FALSE) /\ pubs[p].result.commitHash # << >>) =>
         LET n == Len(pubs[p].results) + 1
         IN /\ Len(pubs'[p].results) >= n
            /\ pubs'[p].results[n].repository = Targets[pubs[p].k]
            /\ ~pubs'[p].results[n].success
            /\ pubs'[p].results[n].error # << >>
            /\ pubs'[p].results[n].commitHash = pubs[p].result.commitHash
            /\ pubs'[p].results[n].filesChanged = pubs[p].result.filesChanged
            /\ pubs'[p].results[n].filesChanged > 0
            /\ commits' = commits /\ pushed' = pushed
            /\ IF pubs'[p].pc = "done"
               THEN Len(pubs'[p].results) = Len(Targets)
               ELSE /\ pubs'[p].k > pubs[p].k
                    /\ pubs'[p].pc = "add"
                    /\ Len(pubs'[p].results) = pubs'[p].k - 1]_vars

\* C23's case: a call has returned; the push of its first target failed after
\* the commit, the result is a failure that holds the hash and the count, and
\* the two targets after it were processed.
C23_Witness ==
  \E p \in PubIds :
    /\ pubs[p].pc = "done"
    /\ pubs[p].results[1].error = <<"git push failed">>
    /\ ~pubs[p].results[1].success
    /\ pubs[p].results[1].commitHash # << >>
    /\ pubs[p].results[1].filesChanged > 0
    /\ commits["skills"] > pushed["skills"]
    /\ pubs[p].results[2].success /\ pubs[p].results[3].success

\* The results a publish call holds, the one being filled included.
ResultsOf(p) ==
  {pubs[p].results[i] : i \in 1..Len(pubs[p].results)}
    \cup (IF pubs[p].pc \in {"idle", "done"} THEN {} ELSE {pubs[p].result})

\* C24: git commit is run for a target with changes exactly when autoCommit is
\* set, and only then does a result carry a commit hash; git push is run only
\* when autoPush is set and the commit of this call was made, so that with
\* autoCommit off no push is run.
C24_CommitAndPushFollowFlags ==
  \A p \in PubIds :
    /\ pubs[p].pc \in {"commit", "hash"} => ghConfig.autoCommit
    /\ \A res \in ResultsOf(p) :
         /\ res.commitHash # << >> => (ghConfig.autoCommit /\ res.filesChanged > 0)
         /\ (res.success /\ res.filesChanged > 0 /\ ghConfig.autoCommit)
              => res.commitHash # << >>
    /\ pubs[p].pc = "push" =>
         /\ ghConfig.autoPush
         /\ ghConfig.autoCommit
         /\ pubs[p].result.commitHash # << >>

\* C25: for each of the three targets, a directory that holds no repository
\* is initialised before it is staged: git rev-parse is followed by git init
\* there, and git add is never run for a target outside a repository (where
\* it fails and marks the target failed).
C25_MissingRepositoryIsInitialised ==
  /\ [][\A p \in PubIds :
          (RevParseDone(p) /\ ~isRepo[pubs[p].dir]) => pubs'[p].pc = "init"]_vars
  /\ [][\A p \in PubIds :
          (\E ok \in BOOLEAN : GitAddDone(p, ok)) => isRepo[pubs[p].dir]]_vars

(***************************************************************************)
(* The integration class                                                   *)
(***************************************************************************)
\* C26: wired as index.ts wires it (the Kilo client null), with no failing
\* I/O call, a manual run that no run overlapped, whose ClawdBot fetch
\* answered and found nothing removed, returns success = true and has a
\* publish started for it, which ends with a result for each of the targets.
C26_HealthyManualSyncPublishes ==
  \A r \in RunIds :
    (/\ kiloClient = "null" /\ faults = 0
     /\ runs[r].origin = "manual" /\ runs[r].pc = "returned" /\ ~runs[r].overlapped
     /\ runs[r].fetchedClawd # << >> /\ ClawdGone(r) = {})
    => /\ runs[r].result.success
       /\ \E p \in PubIds :
            /\ pubs[p].forRun = r /\ pubs[p].pc # "idle"
            /\ pubs[p].pc = "done" => Len(pubs[p].results) = Len(Targets)

\* C27: a run that ended with success = false has changed no skill of the
\* adapter: for the last run started, with no run overlapping it, the
\* adapter's skills are those of the snapshot the run took at its start.
C27_FailedRunLeavesSkillsUnchanged ==
  \A r \in RunIds :
    (runs[r].pc \in Ended /\ ~runs[r].overlapped /\ ~runs[r].result.success)
    => /\ ~runs[r].mutated
       /\ (r = started /\ runs[r].fetchedClawd # << >>) => craftSkills = runs[r].snapshot

\* The runs whose saveSkillsToDisk is in progress.
Saving == {r \in RunIds : runs[r].pc \in {"saveFiles", "saveJson"}}

RECURSIVE ReturnedResults(_)
ReturnedResults(p) == IF p = 0 THEN 0 ELSE Len(pubs[p].results) + ReturnedResults(p - 1)

\* C29: commitHistory holds one entry for every CommitResult returned, the
\* no-change results included: totalCommits is the number of results
\* returned, and it is successfulCommits + failedCommits.
C29_CommitHistoryCountsEveryResult ==
  /\ GetStatistics.totalCommits = ReturnedResults(MaxPublishes)
  /\ GetStatistics.totalCommits
       = GetStatistics.successfulCommits + GetStatistics.failedCommits

(***************************************************************************)
(* The order of the history                                                *)
(***************************************************************************)
\* The time of a timestamp, be it a Date or its ISO string.
TimeOf(ts) == ts[2]

\* C30: the history is ordered by non-decreasing run timestamp, overlapping
\* runs included, and lastSync is the largest timestamp in it.
C30_HistoryOrderedByTimestamp ==
  /\ \A i, j \in 1..Len(syncHistory) :
       i < j => TimeOf(syncHistory[i].timestamp) <= TimeOf(syncHistory[j].timestamp)
  /\ Len(syncHistory) > 0 =>
       /\ lastSync # << >>
       /\ \A i \in 1..Len(syncHistory) : TimeOf(syncHistory[i].timestamp) <= TimeOf(lastSync)
       /\ \E i \in 1..Len(syncHistory) : TimeOf(syncHistory[i].timestamp) = TimeOf(lastSync)

====
